---- MODULE Spec2Model ----
(***************************************************************************)
(* Model of apps/worker/scripts/test-prompt.py: the signed prompt sender.  *)
(* One run of the script is one behaviour: configuration is resolved,      *)
(* the prompt file is read, the envelope is serialised and signed, one     *)
(* HTTP POST is issued and its outcome is printed.                         *)
(*                                                                         *)
(* Text is a sequence of Unicode code points, a byte string a sequence of  *)
(* integers in 0..255.                                                     *)
(***************************************************************************)
EXTENDS Integers, Sequences, FiniteSets, TLC

\* ------------------------------------------------------------------ bounds
\* Longest prompt text enumerated over Alphabet.
MaxLen == 2

\* ------------------------------------------------------------- text values
\* The absent text or byte string (Python's None, or a failed decode): no
\* code point and no byte is negative.
None == <<-1>>

\* Code points the prompt file is built from: ", \, LF, CR, e-acute.
Alphabet == {34, 92, 10, 13, 233}

hello == <<104, 101, 108, 108, 111>>

RECURSIVE SeqsUpTo(_, _)
SeqsUpTo(S, n) ==
    IF n = 0 THEN {<<>>}
    ELSE LET shorter == SeqsUpTo(S, n - 1)
         IN  shorter \cup {Append(s, c) : s \in {t \in shorter : Len(t) = n - 1}, c \in S}

\* The concatenation of a sequence of sequences, by halves.
RECURSIVE Concat(_)
Concat(ss) ==
    IF ss = <<>> THEN <<>>
    ELSE IF Len(ss) = 1 THEN ss[1]
    ELSE LET h == Len(ss) \div 2
         IN  Concat(SubSeq(ss, 1, h)) \o Concat(SubSeq(ss, h + 1, Len(ss)))

Indices(s) == [i \in 1..Len(s) |-> i]

\* ------------------------------------------------------------------ UTF-8
\* str.encode("utf-8") of one code point.
EncodeCodePoint(c) ==
    IF c < 128 THEN <<c>>
    ELSE IF c < 2048 THEN <<192 + (c \div 64), 128 + (c % 64)>>
    ELSE IF c < 65536 THEN <<224 + (c \div 4096), 128 + ((c \div 64) % 64), 128 + (c % 64)>>
    ELSE <<240 + (c \div 262144), 128 + ((c \div 4096) % 64),
           128 + ((c \div 64) % 64), 128 + (c % 64)>>

\* str.encode("utf-8").
Utf8Encode(s) == Concat([i \in 1..Len(s) |-> EncodeCodePoint(s[i])])

IsCont(b) == b >= 128 /\ b < 192

\* The length of the UTF-8 sequence a byte leads, 0 where it leads none.
LeadLen(b0) ==
    IF b0 < 128 THEN 1
    ELSE IF b0 >= 194 /\ b0 < 224 THEN 2
    ELSE IF b0 >= 224 /\ b0 < 240 THEN 3
    ELSE IF b0 >= 240 /\ b0 < 245 THEN 4
    ELSE 0

\* The code point of the n-byte sequence at position i of b.
CodeAt(b, i, n) ==
    IF n = 1 THEN b[i]
    ELSE IF n = 2 THEN (b[i] - 192) * 64 + (b[i + 1] - 128)
    ELSE IF n = 3 THEN (b[i] - 224) * 4096 + (b[i + 1] - 128) * 64 + (b[i + 2] - 128)
    ELSE (b[i] - 240) * 262144 + (b[i + 1] - 128) * 4096
         + (b[i + 2] - 128) * 64 + (b[i + 3] - 128)

\* A well-formed sequence starts at position i of b: lead byte, its
\* continuation bytes and no more, no overlong form, no surrogate.
WellFormedAt(b, i) ==
    LET n == LeadLen(b[i]) IN
    /\ n > 0
    /\ i + n - 1 <= Len(b)
    /\ \A k \in 1..(n - 1) : IsCont(b[i + k])
    /\ (i + n <= Len(b) => ~IsCont(b[i + n]))
    /\ LET c == CodeAt(b, i, n)
       IN  /\ ~(n = 3 /\ c < 2048)
           /\ ~(n = 4 /\ c < 65536)
           /\ ~(c >= 55296 /\ c < 57344)
           /\ c <= 1114111

\* bytes.decode("utf-8"), strict: the text, or None where Python raises
\* UnicodeDecodeError.
Utf8Decode(b) ==
    IF b = <<>> THEN <<>>
    ELSE IF IsCont(b[1]) \/ \E i \in 1..Len(b) : ~IsCont(b[i]) /\ ~WellFormedAt(b, i)
    THEN None
    ELSE LET IsLead(i) == ~IsCont(b[i])
             starts == SelectSeq(Indices(b), IsLead)
         IN  [k \in 1..Len(starts) |-> CodeAt(b, starts[k], LeadLen(b[starts[k]]))]

\* ------------------------------------------------------------ file reading
\* f.read() of a file opened in text mode with the default newline=None:
\* universal newlines, CR LF and a lone CR both become LF (a CR becomes LF,
\* the LF right after a CR is dropped).
TranslateNewlines(s) ==
    LET Kept(i) == ~(s[i] = 10 /\ i > 1 /\ s[i - 1] = 13)
        kept == SelectSeq(Indices(s), Kept)
    IN  [k \in 1..Len(kept) |-> IF s[kept[k]] = 13 THEN 10 ELSE s[kept[k]]]

\* open(PROMPT_FILE, "r", encoding="utf-8").read(): the text, or None where
\* the bytes are not UTF-8 (UnicodeDecodeError).
ReadText(bytes) ==
    LET t == Utf8Decode(bytes) IN IF t = None THEN None ELSE TranslateNewlines(t)

\* ------------------------------------------------------------- json.dumps
HexDigit(d) == IF d < 10 THEN 48 + d ELSE 87 + d

Hex4(c) == <<HexDigit((c \div 4096) % 16), HexDigit((c \div 256) % 16),
             HexDigit((c \div 16) % 16), HexDigit(c % 16)>>

\* One character of a JSON string as json.dumps writes it.
EscapeChar(c, ensure_ascii) ==
    IF c = 34 THEN <<92, 34>>
    ELSE IF c = 92 THEN <<92, 92>>
    ELSE IF c = 10 THEN <<92, 110>>
    ELSE IF c = 13 THEN <<92, 114>>
    ELSE IF c = 9 THEN <<92, 116>>
    ELSE IF c = 8 THEN <<92, 98>>
    ELSE IF c = 12 THEN <<92, 102>>
    ELSE IF c < 32 THEN <<92, 117>> \o Hex4(c)
    ELSE IF ensure_ascii /\ c > 126
         THEN IF c < 65536 THEN <<92, 117>> \o Hex4(c)
              ELSE <<92, 117>> \o Hex4(55296 + ((c - 65536) \div 1024))
                   \o <<92, 117>> \o Hex4(56320 + ((c - 65536) % 1024))
    ELSE <<c>>

encode_basestring(s, ensure_ascii) ==
    <<34>> \o Concat([i \in 1..Len(s) |-> EscapeChar(s[i], ensure_ascii)]) \o <<34>>

\* json.dumps of a dict of strings, given as its items in insertion order.
json_dumps(items, item_sep, key_sep, ensure_ascii) ==
    LET item(i) == (IF i = 1 THEN <<>> ELSE item_sep)
                   \o encode_basestring(items[i][1], ensure_ascii) \o key_sep
                   \o encode_basestring(items[i][2], ensure_ascii)
    IN  <<123>> \o Concat([i \in 1..Len(items) |-> item(i)]) \o <<125>>

\* The key names of the envelope.
K_userId    == <<117, 115, 101, 114, 73, 100>>
K_projectId == <<112, 114, 111, 106, 101, 99, 116, 73, 100>>
K_prompt    == <<112, 114, 111, 109, 112, 116>>

\* body = {"userId": USER_ID, "projectId": PROJECT_ID, "prompt": prompt}
Body(uid, pid, p) == << <<K_userId, uid>>, <<K_projectId, pid>>, <<K_prompt, p>> >>

\* Mutant: json.dumps(body) with its defaults, ", " and ": " and ASCII only.
PayloadDefaults(body) == Utf8Encode(json_dumps(body, <<44, 32>>, <<58, 32>>, TRUE))

\* json.dumps(body, separators=(',',':'), ensure_ascii=False).encode("utf-8")
Payload(body) == Utf8Encode(json_dumps(body, <<44>>, <<58>>, FALSE))

\* ------------------------------------------------------------------- HMAC
\* hmac.new(key, msg, hashlib.sha256).hexdigest(), as the term it denotes:
\* two digests are equal exactly when key and message are.
HmacSha256Hex(key, msg) == [alg |-> "hmac-sha256", key |-> key, msg |-> msg]

\* --------------------------------------------------- the receiver's parser
\* A JSON parser for objects whose members are strings, as the service that
\* receives the body would run it.  The result is the sequence of
\* <<key, value>> members in document order, empty when the text is not
\* such an object.
IsWs(c) == c \in {32, 9, 10, 13}

HexVal(c) ==
    IF c >= 48 /\ c <= 57 THEN c - 48
    ELSE IF c >= 97 /\ c <= 102 THEN c - 87
    ELSE IF c >= 65 /\ c <= 70 THEN c - 55
    ELSE -1

\* The character a one-letter escape stands for, -1 where there is none.
Unescape(e) ==
    IF e \in {34, 92, 47} THEN e
    ELSE IF e = 98 THEN 8
    ELSE IF e = 102 THEN 12
    ELSE IF e = 110 THEN 10
    ELSE IF e = 114 THEN 13
    ELSE IF e = 116 THEN 9
    ELSE -1

\* The number of backslashes right before position i of t.
SlashRun(t, i) ==
    IF i = 1 \/ t[i - 1] # 92 THEN 0
    ELSE LET j == CHOOSE j \in 0..(i - 2) :
                      /\ j = 0 \/ t[j] # 92
                      /\ \A k \in (j + 1)..(i - 2) : t[k] = 92
         IN  i - 1 - j

\* Position i of t follows an escaping backslash.
Escaped(t, i) == SlashRun(t, i) % 2 = 1

\* Position i of t is one of the four hex digits of a \u escape.
InHex(t, i) == \E k \in 1..4 : i - k >= 1 /\ t[i - k] = 117 /\ Escaped(t, i - k)

\* The string whose characters lie strictly between the quotes at positions
\* a and b of t, or None where they are no JSON string.
StringBetween(t, a, b) ==
    LET Ok(i) ==
            IF InHex(t, i) THEN HexVal(t[i]) >= 0
            ELSE IF Escaped(t, i)
                 THEN IF t[i] = 117 THEN i + 4 < b ELSE Unescape(t[i]) >= 0
            ELSE IF t[i] = 92 THEN i + 1 < b
            ELSE t[i] >= 32
        Emits(i) == ~InHex(t, i) /\ (Escaped(t, i) \/ t[i] # 92)
        Value(i) ==
            IF ~Escaped(t, i) THEN t[i]
            ELSE IF t[i] = 117
                 THEN HexVal(t[i + 1]) * 4096 + HexVal(t[i + 2]) * 256
                      + HexVal(t[i + 3]) * 16 + HexVal(t[i + 4])
            ELSE Unescape(t[i])
        inner == [k \in 1..(b - a - 1) |-> a + k]
    IN  IF \E i \in (a + 1)..(b - 1) : ~Ok(i) THEN None
        ELSE LET em == SelectSeq(inner, Emits)
             IN  [k \in 1..Len(em) |-> Value(em[k])]

\* The characters of t strictly between positions a and b, whitespace dropped.
Between(t, a, b) ==
    LET NotWs(c) == ~IsWs(c)
    IN  SelectSeq(SubSeq(t, a + 1, b - 1), NotWs)

JsonLoads(bytes) ==
    LET t == Utf8Decode(bytes) IN
    IF t = None THEN <<>>
    ELSE LET IsQuote(i) == t[i] = 34 /\ ~Escaped(t, i)
             q == SelectSeq(Indices(t), IsQuote)
             n == Len(q) \div 4
             key(m) == StringBetween(t, q[4 * m - 3], q[4 * m - 2])
             val(m) == StringBetween(t, q[4 * m - 1], q[4 * m])
         IN  IF /\ Len(q) > 0
                /\ Len(q) % 4 = 0
                /\ Between(t, 0, q[1]) = <<123>>
                /\ Between(t, q[Len(q)], Len(t) + 1) = <<125>>
                /\ \A m \in 1..n :
                      /\ key(m) # None
                      /\ val(m) # None
                      /\ Between(t, q[4 * m - 2], q[4 * m - 1]) = <<58>>
                      /\ (m < n => Between(t, q[4 * m], q[4 * m + 1]) = <<44>>)
             THEN [m \in 1..n |-> <<key(m), val(m)>>]
             ELSE <<>>

\* The value of member key of a parsed object (the last one, as parsers keep),
\* or None.
JsonGet(obj, key) ==
    IF ~\E i \in 1..Len(obj) : obj[i][1] = key THEN None
    ELSE obj[CHOOSE i \in 1..Len(obj) :
                 obj[i][1] = key /\ \A j \in (i + 1)..Len(obj) : obj[j][1] # key][2]

JsonKeys(obj) == [i \in 1..Len(obj) |-> obj[i][1]]

\* ------------------------------------------------------------ the inputs
Unset == "<unset>"

abc == <<97, 98, 99>>
xyz == <<120, 121, 122>>
u1  == <<117, 49>>
u2  == <<117, 50>>
p1  == <<112, 49>>

user123    == <<117, 115, 101, 114, 49, 50, 51>>
project789 == <<112, 114, 111, 106, 101, 99, 116, 55, 56, 57>>

DefaultEndpoint   == "http://localhost:3000/build-preview-for-new-project"
DefaultPromptFile == "test-prompt.txt"

\* The process environment: the three text settings hold a text or None,
\* the two others a string or Unset.
Environs ==
    { [SHARED_SECRET |-> s, USER_ID |-> e.u, PROJECT_ID |-> e.p,
       ENDPOINT |-> e.url, PROMPT_FILE |-> e.f] :
         s \in {None, <<>>, abc},
         e \in { [u |-> None, p |-> None, url |-> Unset, f |-> Unset],
                 [u |-> u1, p |-> p1, url |-> Unset, f |-> Unset],
                 [u |-> u1, p |-> None, url |-> "http://worker.test/build",
                  f |-> "prompts/p.txt"] } }

\* The .env file: absent or empty, or one that sets the secret and the user.
DotenvFiles ==
    { [SHARED_SECRET |-> None, USER_ID |-> None, PROJECT_ID |-> None,
       ENDPOINT |-> Unset, PROMPT_FILE |-> Unset],
      [SHARED_SECRET |-> xyz, USER_ID |-> u2, PROJECT_ID |-> None,
       ENDPOINT |-> Unset, PROMPT_FILE |-> Unset] }

\* The texts a prompt file may hold.
Texts == SeqsUpTo(Alphabet, MaxLen) \cup {hello}

\* What is at the prompt path: nothing, a file that may not be read, a
\* directory, or a file holding UTF-8 text or bytes that are not UTF-8.
Paths ==
    { [kind |-> k, bytes |-> <<>>] : k \in {"missing", "denied", "directory"} }
    \cup { [kind |-> "file", bytes |-> Utf8Encode(t)] : t \in Texts }
    \cup { [kind |-> "file", bytes |-> <<104, 255>>] }

\* {"ok":true} and "error text".
ok_true    == <<123, 34, 111, 107, 34, 58, 116, 114, 117, 101, 125>>
error_text == <<101, 114, 114, 111, 114, 32, 116, 101, 120, 116>>

OkStatuses  == {200, 201}
ErrStatuses == {404, 500}

\* What the endpoint sends back: a status, the bytes of the body (a text, or
\* bytes that are not UTF-8), and whether the connection lasts until the body
\* is read.
Replies(statuses, text) ==
    { [status |-> c, data |-> d, complete |-> k] :
         c \in statuses, d \in {text, <<195, 40>>}, k \in BOOLEAN }

NoReply == [status |-> 0, data |-> <<>>, complete |-> FALSE]

\* The reasons of a URLError.
Reasons == {"[Errno 111] Connection refused", "[Errno -2] Name or service not known",
            "timed out"}

\* ---------------------------------------------------------------- state
VARIABLES
    pc,             \* the statement the script is at
    environ,        \* os.environ
    dotenv,         \* the .env file
    path,           \* what the file system holds at the prompt path
    SHARED_SECRET, USER_ID, PROJECT_ID, ENDPOINT, PROMPT_FILE,
    f_open,         \* the prompt file handle f is open
    prompt, payload, sig,
    req,            \* the Request objects built (at most one)
    requests,       \* the requests handed to urlopen
    resp,           \* the response, or the HTTPError, urlopen produced
    resp_open,      \* the response is open
    resp_body,
    exc,            \* the exception in flight, "" when there is none
    stdout, stderr,
    exit_status     \* {} while the process runs, then {code}

vars == <<pc, environ, dotenv, path, SHARED_SECRET, USER_ID, PROJECT_ID, ENDPOINT,
          PROMPT_FILE, f_open, prompt, payload, sig, req, requests, resp, resp_open,
          resp_body, exc, stdout, stderr, exit_status>>

config == <<SHARED_SECRET, USER_ID, PROJECT_ID, ENDPOINT, PROMPT_FILE>>
inputs == <<environ, dotenv, path>>
built  == <<prompt, payload, sig, req>>

Init ==
    /\ pc = "load_dotenv"
    /\ environ \in Environs
    /\ dotenv \in DotenvFiles
    /\ path \in Paths
    /\ SHARED_SECRET = None /\ USER_ID = None /\ PROJECT_ID = None
    /\ ENDPOINT = Unset /\ PROMPT_FILE = Unset
    /\ f_open = FALSE
    /\ prompt = None /\ payload = None /\ sig = HmacSha256Hex(None, None)
    /\ req = <<>> /\ requests = <<>>
    /\ resp = NoReply /\ resp_open = FALSE /\ resp_body = None
    /\ exc = ""
    /\ stdout = <<>> /\ stderr = <<>>
    /\ exit_status = {}

\* ----------------------------------------------------- output and exits
\* print(..., file=stream) by the script: one line, told by what it says.
Line(msg, arg) == [by |-> "script", msg |-> msg, arg |-> arg]

\* The traceback the interpreter writes for an exception nothing catches;
\* its last line names the exception, and the file where open raised it.
Traceback(e) ==
    [by |-> "interpreter", msg |-> "Traceback (most recent call last):",
     arg |-> IF e \in {"PermissionError", "IsADirectoryError"}
             THEN <<e, PROMPT_FILE>> ELSE <<e>>]

\* sys.exit(code).
Exit(code) == /\ pc' = "exited" /\ exit_status' = {code}

\* An exception leaves main uncaught: traceback on stderr, exit status 1.
Uncaught(e) ==
    /\ stderr' = Append(stderr, Traceback(e))
    /\ Exit(1)

\* os.getenv(name) / os.getenv(name, default).
getenv(value, absent, default) == IF value = absent THEN default ELSE value

\* Mutant: SHARED_SECRET is None, which lets the empty secret through.
IsNoneOnly(s) == s = None

\* not SHARED_SECRET
Falsy(s) == s = None \/ s = <<>>

\* ------------------------------------------------------------- module top
\* load_dotenv(): a key of the .env file is set unless the environment has it.
LoadDotenv ==
    /\ pc = "load_dotenv"
    /\ environ' =
         [SHARED_SECRET |-> getenv(environ.SHARED_SECRET, None, dotenv.SHARED_SECRET),
          USER_ID       |-> getenv(environ.USER_ID, None, dotenv.USER_ID),
          PROJECT_ID    |-> getenv(environ.PROJECT_ID, None, dotenv.PROJECT_ID),
          ENDPOINT      |-> getenv(environ.ENDPOINT, Unset, dotenv.ENDPOINT),
          PROMPT_FILE   |-> getenv(environ.PROMPT_FILE, Unset, dotenv.PROMPT_FILE)]
    /\ pc' = "getenv"
    /\ UNCHANGED <<dotenv, path, config, f_open, built, requests, resp, resp_open,
                   resp_body, exc, stdout, stderr, exit_status>>

\* SHARED_SECRET = os.getenv("SHARED_SECRET"); not set: diagnostic, exit 1.
SecretMissing ==
    /\ pc = "getenv"
    /\ Falsy(environ.SHARED_SECRET)
    /\ SHARED_SECRET' = environ.SHARED_SECRET
    /\ stderr' = Append(stderr, Line("Error: SHARED_SECRET not set in environment or .env file", ""))
    /\ Exit(1)
    /\ UNCHANGED <<inputs, USER_ID, PROJECT_ID, ENDPOINT, PROMPT_FILE, f_open, built,
                   requests, resp, resp_open, resp_body, exc, stdout>>

\* The secret is set: the four other settings are resolved, main() is called.
LoadConfig ==
    /\ pc = "getenv"
    /\ ~Falsy(environ.SHARED_SECRET)
    /\ SHARED_SECRET' = environ.SHARED_SECRET
    /\ USER_ID' = getenv(environ.USER_ID, None, user123)
    /\ PROJECT_ID' = getenv(environ.PROJECT_ID, None, project789)
    /\ ENDPOINT' = getenv(environ.ENDPOINT, Unset, DefaultEndpoint)
    /\ PROMPT_FILE' = getenv(environ.PROMPT_FILE, Unset, DefaultPromptFile)
    /\ pc' = "open"
    /\ UNCHANGED <<inputs, f_open, built, requests, resp, resp_open, resp_body, exc,
                   stdout, stderr, exit_status>>

\* ------------------------------------------------------ main: the prompt
\* open(PROMPT_FILE, "r", encoding="utf-8") succeeds.
OpenPrompt ==
    /\ pc = "open"
    /\ path.kind = "file"
    /\ f_open' = TRUE
    /\ pc' = "read"
    /\ UNCHANGED <<inputs, config, built, requests, resp, resp_open, resp_body, exc,
                   stdout, stderr, exit_status>>

\* open raises FileNotFoundError: the except clause prints and exits.
PromptNotFound ==
    /\ pc = "open"
    /\ path.kind = "missing"
    /\ stderr' = Append(stderr, Line("Error: cannot find", PROMPT_FILE))
    /\ Exit(1)
    /\ UNCHANGED <<inputs, config, f_open, built, requests, resp, resp_open, resp_body,
                   exc, stdout>>

\* open raises another OSError, which no except clause of main names.
OpenError(kind) ==
    IF kind = "denied" THEN "PermissionError" ELSE "IsADirectoryError"

PromptNotOpened ==
    /\ pc = "open"
    /\ path.kind \in {"denied", "directory"}
    /\ Uncaught(OpenError(path.kind))
    /\ UNCHANGED <<inputs, config, f_open, built, requests, resp, resp_open, resp_body,
                   exc, stdout>>

\* prompt = f.read(), which raises UnicodeDecodeError on bytes not UTF-8.
ReadPrompt ==
    /\ pc = "read"
    /\ LET text == ReadText(path.bytes) IN
       IF text = None
       THEN /\ exc' = "UnicodeDecodeError"
            /\ UNCHANGED prompt
       ELSE /\ prompt' = text
            /\ UNCHANGED exc
    /\ pc' = "close"
    /\ UNCHANGED <<inputs, config, f_open, payload, sig, req, requests, resp, resp_open,
                   resp_body, stdout, stderr, exit_status>>

\* Mutant: the file is read without the with statement and never closed.
ClosePromptLeaks ==
    /\ pc = "close"
    /\ IF exc = ""
       THEN /\ pc' = "dumps"
            /\ UNCHANGED <<stderr, exit_status>>
       ELSE Uncaught(exc)
    /\ UNCHANGED <<inputs, config, f_open, built, requests, resp, resp_open, resp_body,
                   exc, stdout>>

\* The with statement is left: f is closed, and an exception goes on.
ClosePrompt ==
    /\ pc = "close"
    /\ f_open' = FALSE
    /\ IF exc = ""
       THEN /\ pc' = "dumps"
            /\ UNCHANGED <<stderr, exit_status>>
       ELSE Uncaught(exc)
    /\ UNCHANGED <<inputs, config, built, requests, resp, resp_open, resp_body, exc,
                   stdout>>

\* ------------------------------------------------- main: serialise, sign
BuildPayload ==
    /\ pc = "dumps"
    /\ payload' = Payload(Body(USER_ID, PROJECT_ID, prompt))
    /\ pc' = "hmac"
    /\ UNCHANGED <<inputs, config, f_open, prompt, sig, req, requests, resp, resp_open,
                   resp_body, exc, stdout, stderr, exit_status>>

\* Mutant: the signature is computed over a second serialisation of the
\* envelope, json.dumps(body) with its default separators.
SignatureOfReserialised(secret, data) ==
    HmacSha256Hex(Utf8Encode(secret),
                  Utf8Encode(json_dumps(JsonLoads(data), <<44, 32>>, <<58, 32>>, FALSE)))

\* hmac.new(SHARED_SECRET.encode("utf-8"), payload, hashlib.sha256).hexdigest()
Signature(secret, data) == HmacSha256Hex(Utf8Encode(secret), data)

Sign ==
    /\ pc = "hmac"
    /\ sig' = Signature(SHARED_SECRET, payload)
    /\ pc' = "request"
    /\ UNCHANGED <<inputs, config, f_open, prompt, payload, req, requests, resp,
                   resp_open, resp_body, exc, stdout, stderr, exit_status>>

\* request.Request(ENDPOINT, data=payload, headers={...}, method="POST")
Request(url, data, signature) ==
    [url |-> url, data |-> data, method |-> "POST",
     content_type |-> "application/json", x_sheen_signature |-> signature]

BuildRequest ==
    /\ pc = "request"
    /\ req' = <<Request(ENDPOINT, payload, sig)>>
    /\ pc' = "urlopen"
    /\ UNCHANGED <<inputs, config, f_open, prompt, payload, sig, requests, resp,
                   resp_open, resp_body, exc, stdout, stderr, exit_status>>

\* -------------------------------------------------------- main: the POST
\* request.urlopen(req) returns a response: the with block is entered.
UrlOpenResponds ==
    /\ pc = "urlopen"
    /\ requests' = Append(requests, req[1])
    /\ \E reply \in Replies(OkStatuses, ok_true) : resp' = reply
    /\ resp_open' = TRUE
    /\ pc' = "read_resp"
    /\ UNCHANGED <<inputs, config, f_open, built, resp_body, exc, stdout, stderr,
                   exit_status>>

\* request.urlopen(req) raises HTTPError e, which carries the error response.
UrlOpenHTTPError ==
    /\ pc = "urlopen"
    /\ requests' = Append(requests, req[1])
    /\ \E reply \in Replies(ErrStatuses, error_text) : resp' = reply
    /\ pc' = "http_error"
    /\ UNCHANGED <<inputs, config, f_open, built, resp_open, resp_body, exc, stdout,
                   stderr, exit_status>>

\* request.urlopen(req) raises URLError: no response was received.
UrlOpenURLError ==
    /\ pc = "urlopen"
    /\ requests' = Append(requests, req[1])
    /\ \E reason \in Reasons : exc' = reason
    /\ pc' = "url_error"
    /\ UNCHANGED <<inputs, config, f_open, built, resp, resp_open, resp_body, stdout,
                   stderr, exit_status>>

\* x.read().decode("utf-8") of a response: the text, or the exception raised
\* (the connection fails while the body is read, or the body is not UTF-8).
ReadFailure(r) ==
    IF ~r.complete THEN "ConnectionResetError"
    ELSE IF Utf8Decode(r.data) = None THEN "UnicodeDecodeError"
    ELSE ""

\* resp_body = resp.read().decode("utf-8")
ReadResponse ==
    /\ pc = "read_resp"
    /\ IF ReadFailure(resp) = ""
       THEN /\ resp_body' = Utf8Decode(resp.data)
            /\ pc' = "print_status"
            /\ UNCHANGED exc
       ELSE /\ exc' = ReadFailure(resp)
            /\ pc' = "close_resp"
            /\ UNCHANGED resp_body
    /\ UNCHANGED <<inputs, config, f_open, built, requests, resp, resp_open, stdout,
                   stderr, exit_status>>

\* print(f"-> HTTP {resp.status}")
PrintStatus ==
    /\ pc = "print_status"
    /\ stdout' = Append(stdout, Line("-> HTTP", resp.status))
    /\ pc' = "print_body"
    /\ UNCHANGED <<inputs, config, f_open, built, requests, resp, resp_open, resp_body,
                   exc, stderr, exit_status>>

\* print(resp_body)
PrintBody ==
    /\ pc = "print_body"
    /\ stdout' = Append(stdout, Line("", resp_body))
    /\ pc' = "close_resp"
    /\ UNCHANGED <<inputs, config, f_open, built, requests, resp, resp_open, resp_body,
                   exc, stderr, exit_status>>

\* Mutant: leaving the with block swallows the exception in flight.
CloseResponseSwallows ==
    /\ pc = "close_resp"
    /\ resp_open' = FALSE
    /\ Exit(0)
    /\ UNCHANGED <<inputs, config, f_open, built, requests, resp, resp_body, exc,
                   stdout, stderr>>

\* The with statement is left: the response is closed; main returns and the
\* script ends with status 0, or the exception in flight goes on.  None of
\* the exceptions a read raises is an HTTPError or a URLError.
CloseResponse ==
    /\ pc = "close_resp"
    /\ resp_open' = FALSE
    /\ IF exc = ""
       THEN /\ Exit(0)
            /\ UNCHANGED stderr
       ELSE Uncaught(exc)
    /\ UNCHANGED <<inputs, config, f_open, built, requests, resp, resp_body, exc,
                   stdout>>

\* Mutant: the status of an HTTP error is printed without file=sys.stderr.
PrintErrorStatusToStdout ==
    /\ pc = "http_error"
    /\ stdout' = Append(stdout, Line("-> HTTP", resp.status))
    /\ pc' = "http_error_body"
    /\ UNCHANGED <<inputs, config, f_open, built, requests, resp, resp_open, resp_body,
                   exc, stderr, exit_status>>

\* except error.HTTPError as e: print(f"-> HTTP {e.code}", file=sys.stderr)
PrintErrorStatus ==
    /\ pc = "http_error"
    /\ stderr' = Append(stderr, Line("-> HTTP", resp.status))
    /\ pc' = "http_error_body"
    /\ UNCHANGED <<inputs, config, f_open, built, requests, resp, resp_open, resp_body,
                   exc, stdout, exit_status>>

\* print(e.read().decode("utf-8"), file=sys.stderr); sys.exit(1)
PrintErrorBody ==
    /\ pc = "http_error_body"
    /\ IF ReadFailure(resp) = ""
       THEN /\ stderr' = Append(stderr, Line("", Utf8Decode(resp.data)))
            /\ Exit(1)
       ELSE Uncaught(ReadFailure(resp))
    /\ UNCHANGED <<inputs, config, f_open, built, requests, resp, resp_open, resp_body,
                   exc, stdout>>

\* Mutant: a URLError is answered by sending the request once more.
RetryRequest ==
    /\ pc = "url_error"
    /\ IF Len(requests) < 2
       THEN /\ pc' = "urlopen"
            /\ UNCHANGED <<stderr, exit_status>>
       ELSE /\ stderr' = Append(stderr, Line("Request failed:", exc))
            /\ Exit(1)
    /\ UNCHANGED <<inputs, config, f_open, built, requests, resp, resp_open, resp_body,
                   exc, stdout>>

\* except error.URLError as e: print(f"Request failed: {e.reason}", ...); exit 1
PrintRequestFailed ==
    /\ pc = "url_error"
    /\ stderr' = Append(stderr, Line("Request failed:", exc))
    /\ Exit(1)
    /\ UNCHANGED <<inputs, config, f_open, built, requests, resp, resp_open, resp_body,
                   exc, stdout>>

\* ------------------------------------------------------------------ spec
Next ==
    \/ LoadDotenv
    \/ SecretMissing
    \/ LoadConfig
    \/ OpenPrompt
    \/ PromptNotFound
    \/ PromptNotOpened
    \/ ReadPrompt
    \/ ClosePrompt
    \/ BuildPayload
    \/ Sign
    \/ BuildRequest
    \/ UrlOpenResponds
    \/ UrlOpenHTTPError
    \/ UrlOpenURLError
    \/ ReadResponse
    \/ PrintStatus
    \/ PrintBody
    \/ CloseResponse
    \/ PrintErrorStatus
    \/ PrintErrorBody
    \/ PrintRequestFailed

Spec == Init /\ [][Next]_vars

\* ----------------------------------------------------------- properties
Exited == pc = "exited"

\* Line l was printed by the script and says msg.
IsLine(l, msg) == l.by = "script" /\ l.msg = msg

\* The members of the object in bytes are written with nothing but the one
\* separator between them and nothing around them.
Compact(bytes) ==
    LET t == Utf8Decode(bytes)
        IsQuote(i) == t[i] = 34 /\ ~Escaped(t, i)
        q == SelectSeq(Indices(t), IsQuote)
    IN  /\ Len(q) > 0
        /\ q[1] = 2
        /\ q[Len(q)] = Len(t) - 1
        /\ \A k \in 1..(Len(q) - 1) : k % 2 = 0 => q[k + 1] = q[k] + 2

\* The code points of s that are not ASCII.
NonAscii(s) == LET Wide(c) == c >= 128 IN SelectSeq(s, Wide)

body_u1_p1_hello ==
    <<123, 34, 117, 115, 101, 114, 73, 100, 34, 58, 34, 117, 49, 34, 44, 34, 112, 114,
      111, 106, 101, 99, 116, 73, 100, 34, 58, 34, 112, 49, 34, 44, 34, 112, 114, 111,
      109, 112, 116, 34, 58, 34, 104, 101, 108, 108, 111, 34, 125>>

\* C1: every request handed to urlopen carries, as x-sheen-signature, the
\* HMAC-SHA256 keyed by the UTF-8 bytes of SHARED_SECRET of exactly the bytes
\* it carries as its body, and those are the bytes serialised once as payload.
C1_SignatureOverSentBytes ==
    \A i \in 1..Len(requests) :
        /\ requests[i].x_sheen_signature
             = HmacSha256Hex(Utf8Encode(SHARED_SECRET), requests[i].data)
        /\ requests[i].data = payload
        /\ requests[i].method = "POST"

C1_Witness ==
    /\ Len(requests) = 1
    /\ NonAscii(prompt) # <<>>
    /\ requests[1].x_sheen_signature.msg = requests[1].data

\* C2: for a prompt file holding the UTF-8 text P, the body sent, parsed as
\* JSON, has prompt equal to P.
C2_PromptRoundTrip ==
    \A i \in 1..Len(requests) :
        JsonGet(JsonLoads(requests[i].data), K_prompt) = Utf8Decode(path.bytes)

\* C3: when SHARED_SECRET, as resolved from the environment and the .env
\* file, is absent or empty, the script has, once past the check, written its
\* diagnostic to stderr and exited with 1; the prompt file was never opened
\* or read and no request was built or sent.
C3_MissingSecretFailsFast ==
    (pc \notin {"load_dotenv", "getenv"}
        /\ (environ.SHARED_SECRET = None \/ environ.SHARED_SECRET = <<>>))
    => /\ Exited
       /\ exit_status = {1}
       /\ Len(stderr) = 1
       /\ IsLine(stderr[1], "Error: SHARED_SECRET not set in environment or .env file")
       /\ stdout = <<>>
       /\ ~f_open /\ prompt = None
       /\ req = <<>> /\ requests = <<>>

C3_Witness ==
    /\ Exited
    /\ environ.SHARED_SECRET = <<>>
    /\ path.kind = "file"
    /\ exit_status = {1}

\* C4: when the prompt path does not exist or cannot be opened, main has,
\* once the process is over, written a diagnostic naming the path to stderr,
\* the exit status is 1 and no request was sent.
C4_UnopenablePromptDiagnosed ==
    (Exited /\ PROMPT_FILE # Unset /\ path.kind # "file")
    => /\ exit_status = {1}
       /\ requests = <<>>
       /\ \E i \in 1..Len(stderr) :
              IsLine(stderr[i], "Error: cannot find") /\ stderr[i].arg = PROMPT_FILE

\* C5: after a transport failure of the POST (urlopen raises URLError, or the
\* connection fails while the response is read), main has written a
\* diagnostic naming the reason to stderr, nothing is on stdout and the exit
\* status is 1.
C5_TransportFailureDiagnosed ==
    (Exited /\ Len(requests) = 1 /\ (exc \in Reasons \/ (resp.status # 0 /\ ~resp.complete)))
    => /\ exit_status = {1}
       /\ stdout = <<>>
       /\ \E i \in 1..Len(stderr) : IsLine(stderr[i], "Request failed:")

\* C6: after an HTTP error response, stdout is empty, the exit status is 1
\* and stderr starts with the line "-> HTTP <status>"; where the error body
\* is received whole and is UTF-8, stderr is that line and then the decoded
\* body.
C6_HttpErrorReported ==
    (Exited /\ resp.status \in ErrStatuses)
    => /\ exit_status = {1}
       /\ stdout = <<>>
       /\ Len(stderr) = 2
       /\ IsLine(stderr[1], "-> HTTP") /\ stderr[1].arg = resp.status
       /\ (ReadFailure(resp) = ""
             => IsLine(stderr[2], "") /\ stderr[2].arg = Utf8Decode(resp.data))

C6_Witness ==
    /\ Exited
    /\ resp.status = 500
    /\ resp.data = error_text
    /\ resp.complete
    /\ Len(stderr) = 2

\* C7: stdout only ever holds the line "-> HTTP <status>" and then the
\* decoded body, in that order; a response urlopen returns, received whole
\* and UTF-8, ends in both lines on stdout and exit status 0; and exit status
\* 0 occurs in no other run.
StdoutOf(r, n) ==
    /\ Len(stdout) = n
    /\ n >= 1 => IsLine(stdout[1], "-> HTTP") /\ stdout[1].arg = r.status
    /\ n >= 2 => IsLine(stdout[2], "") /\ stdout[2].arg = Utf8Decode(r.data)

C7_SuccessPrintedExitZero ==
    /\ \E n \in 0..2 : StdoutOf(resp, n)
    /\ (Exited /\ resp.status \in OkStatuses /\ ReadFailure(resp) = "")
          => exit_status = {0} /\ StdoutOf(resp, 2) /\ stderr = <<>>
    /\ exit_status = {0}
          => /\ resp.status \in OkStatuses
             /\ ReadFailure(resp) = ""
             /\ StdoutOf(resp, 2)
             /\ Len(requests) = 1

C7_Witness ==
    /\ exit_status = {0}
    /\ resp.status = 200
    /\ resp.data = ok_true
    /\ Len(stdout) = 2

\* C8: the body of every request is the JSON object with the members userId,
\* projectId, prompt in that order, holding USER_ID, PROJECT_ID and the
\* prompt, with nothing between or around the members but the one ":" or ","
\* and every non-ASCII character literal; for u1, p1 and hello the bytes are
\* {"userId":"u1","projectId":"p1","prompt":"hello"}.
C8_CompactOrderedBody ==
    \A i \in 1..Len(requests) :
        LET data == requests[i].data
            obj  == JsonLoads(data)
        IN  /\ obj = Body(USER_ID, PROJECT_ID, prompt)
            /\ JsonKeys(obj) = <<K_userId, K_projectId, K_prompt>>
            /\ Compact(data)
            /\ NonAscii(Utf8Decode(data)) = NonAscii(USER_ID \o PROJECT_ID \o prompt)
            /\ (USER_ID = u1 /\ PROJECT_ID = p1 /\ prompt = hello)
                  => data = body_u1_p1_hello

C8_Witness ==
    /\ Len(requests) = 1
    /\ USER_ID = u1 /\ PROJECT_ID = p1 /\ prompt = hello
    /\ requests[1].data = body_u1_p1_hello

C8_WitnessNonAscii ==
    /\ Len(requests) = 1
    /\ prompt = <<233, 34>>

\* C9: no step leaves more than one request handed to urlopen, and no step
\* is taken once the process has exited: an HTTP error response or a
\* transport failure is followed by no further request.
C9_AtMostOnePost ==
    [][ /\ Len(requests') <= 1
        /\ (pc \in {"http_error", "http_error_body", "url_error"} => requests' = requests)
        /\ (exit_status # {} => UNCHANGED vars) ]_vars

C9_Witness ==
    /\ Exited
    /\ exit_status = {1}
    /\ Len(requests) = 1
    /\ exc \in Reasons

\* C10: the prompt file is open only while it is read; when a request is
\* built or sent the file was read in full and is closed, and it is closed
\* when the process is over, also where the read failed.
C10_FileReleasedBeforeNetwork ==
    /\ f_open => pc \in {"read", "close"}
    /\ (req # <<>> \/ requests # <<>> \/ pc \in {"urlopen", "read_resp", "http_error", "url_error"})
          => ~f_open /\ prompt # None
    /\ Exited => ~f_open

C10_Witness ==
    /\ Len(requests) = 1
    /\ ~f_open
    /\ prompt = TranslateNewlines(Utf8Decode(path.bytes))

C10_WitnessReadFails ==
    /\ Exited
    /\ exc = "UnicodeDecodeError"
    /\ requests = <<>>
    /\ ~f_open

====
